---- MODULE Spec2Model ----
(***************************************************************************)
(* Model of cpp/src/hdbscan/detail/reachability.cuh: the multi-device KNN  *)
(* orchestration compute_knn_GF, the single-device compute_knn, the        *)
(* core-distance extraction and the two mutual-reachability graph builders.*)
(*                                                                         *)
(* Arrays are functions over 0..len-1 (C indexing).  A point-set array is  *)
(* modelled at row granularity: element r of X1 stands for the n1 features *)
(* of row r, so the pointer offset n1*start_pos_idx is the row offset      *)
(* start_pos_idx.  value_t values are integers (exactly representable      *)
(* floats); all distances are even so that scaling by 1/alpha is exact for *)
(* the modelled alphas.                                                    *)
(***************************************************************************)
EXTENDS Integers, Sequences, FiniteSets, TLC

\* ---------------------------------------------------------------- bounds
MaxM       == 3   \* reference rows m
MaxQ       == 3   \* query rows n_search_items of a query set that is not X
MaxK       == 2   \* neighbours k / min_samples
MaxDevices == 3   \* cudaGetDeviceCount
MaxGFExtra == 0   \* rows beyond GF_MIN_SAMPLES given to mutual_reachability_graph_GF
IdxBits    == 8   \* width of value_idx, scaled down from 32 bits
MaxFaults  == 1   \* CUDA calls that fail of themselves in one execution
MaxOver    == 2   \* rows beyond the largest value of the index type, compute_knn

\* ------------------------------------------------------------- constants
\* rmm::device_uvector and cudaMalloc leave their elements uninitialized
Uninit == -1
\* std::numeric_limits<value_t>::max(), the largest finite weight
NumericLimitsMax == 2147483647
\* the neighbourhood size mutual_reachability_graph_GF overwrites min_samples
\* with (line 498) and the row stride it hands to core_distances (line 524)
GF_MIN_SAMPLES == 64
GF_N_NEIGHBORS == 64
\* pointer value standing for the caller's own array (X1 or X2)
CallerPtr == -1
\* no iteration is being run by a thread
NoIter == -1

Abs(x) == IF x < 0 THEN -x ELSE x
Max2(a, b) == IF a >= b THEN a ELSE b

Array(n, v) == [e \in 0..(n - 1) |-> v]
\* the function f itself, tabulated once instead of recomputed at each use
Table(f) == f @@ <<>>

\* ------------------------------------------------------------ input sets
Layouts == {"line", "fold"}

\* the two feature arrays of a point set of n rows
Points1(layout, n) ==
  [r \in 0..(n - 1) |-> IF layout = "line" THEN 2 * r ELSE 4 * (r % 2)]
Points2(layout, n) ==
  [r \in 0..(n - 1) |-> IF layout = "line" THEN 0 ELSE 2 * (r \div 2)]

\* what a read past the end of a row array may return
JunkVals == {0, 6}

\* --------------------------------------------- exact KNN engine (oracle)
\* distance between a query row (q1, q2) and a reference row (r1, r2)
RowDist(q1, q2, r1, r2) == Abs(q1 - r1) + Abs(q2 - r2)

\* the one element of a singleton set; {e(x) : x \in {v}} computes v once,
\* whatever the context e(x) is evaluated in
Only(S) == CHOOSE x \in S : TRUE

\* one row of the search: the kk nearest reference rows, ascending by
\* distance, ties by index, as <<index, distance>> pairs.  d is the distance
\* to each reference row and rank the number of rows that come before it.
KnnRow(R1, R2, mm, q1, q2, kk) ==
  Only({Only({Table([c \in 0..(kk - 1) |->
                 LET j == CHOOSE j \in 0..(mm - 1) : rank[j] = c
                 IN  <<j, d[j]>>]) :
              rank \in {Table([j \in 0..(mm - 1) |->
                 Cardinality({a \in 0..(mm - 1) :
                                d[a] < d[j] \/ (d[a] = d[j] /\ a < j)})])}}) :
        d \in {Table([j \in 0..(mm - 1) |-> RowDist(q1, q2, R1[j], R2[j])])}})

\* brute_force_knn / brute_force_knn_GF: the query rows Q1, Q2 (nq rows)
\* against the reference rows R1, R2 (mm rows); row-major nq*kk result
BruteForceKnn(R1, R2, mm, Q1, Q2, nq, kk) ==
  Only({[ind  |-> Table([e \in 0..(nq * kk - 1) |-> rows[e \div kk][e % kk][1]]),
         dist |-> Table([e \in 0..(nq * kk - 1) |-> rows[e \div kk][e % kk][2]])] :
        rows \in {Table([r \in 0..(nq - 1) |-> KnnRow(R1, R2, mm, Q1[r], Q2[r], kk)])}})

\* the int64_t -> value_idx conversion of the narrowing lambda: the value is
\* reduced modulo 2^IdxBits into the signed range of value_idx
Narrow(in) == ((in + 2 ^ (IdxBits - 1)) % (2 ^ IdxBits)) - 2 ^ (IdxBits - 1)

\* ------------------------------------------------------------- partition
\* a partition that forgets the remainder rows of the last device
NumSearchItemsMe_NoRemainder(n, D, i) == n \div D
\* a partition whose chunks all start at row 0
StartPosIdx_NoOffset(n, D, i) == 0

\* rows of the chunk of device i
NumSearchItemsMe(n, D, i) ==
  IF i = D - 1 THEN (n \div D) + (n % D) ELSE n \div D
StartPosIdx(n, D, i) == (n \div D) * i

\* ------------------------------------------------------------------ state
VARIABLES
  \* arguments of compute_knn_GF and the process's CUDA environment
  m, k, n_search_items, X1, X2, search_items1, search_items2,
  device_count,     \* what cudaGetDeviceCount reports
  cur_device,       \* the current device of the calling thread
  \* locals of compute_knn_GF
  pc, num_devices, sentinel_device, stage_i,
  per_device_x1, per_device_x2, inputs1_vec, inputs2_vec,
  staged1, staged2, \* the cudaMalloc'ed staging buffers, by device index
  int64_indices, dists, inds,
  \* the parallel region
  master_iter,      \* the iteration the calling thread is running
  it_pc, it_start, it_len, it_inds, it_dists,
  \* history: which iterations wrote each element of the merged arrays
  wr_dists, wr_inds,
  rmm_live,         \* the rmm::device_uvector scratch buffers that are alive
  sizes,            \* the std::vector<int> of reference row counts
  cuda_errors,      \* the failed CUDA calls that check() has reported
  \* arguments and locals of mutual_reachability_graph(_GF) and core_distances
  entry,            \* the function that was called
  g_pc, metric, min_samples, n_neighbors, alpha2,
  coo_rows, core_dists, indptr, out,
  g_alloc,          \* the scratch buffers the call holds
  device_work       \* device operations launched so far

knn_vars == <<m, k, n_search_items, X1, X2, search_items1, search_items2,
              device_count, cur_device, pc, num_devices, sentinel_device,
              stage_i, per_device_x1, per_device_x2, inputs1_vec, inputs2_vec,
              staged1, staged2, int64_indices, dists, inds,
              master_iter, it_pc, it_start, it_len, it_inds, it_dists,
              wr_dists, wr_inds, rmm_live, sizes, cuda_errors>>

graph_vars == <<entry, g_pc, metric, min_samples, n_neighbors, alpha2,
                coo_rows, core_dists, indptr, out, g_alloc, device_work>>

vars == <<knn_vars, graph_vars>>

Devices == 0..(MaxDevices - 1)
\* a pointer that was never allocated; frees counts the cudaFree calls on it
NoBuf == [st |-> "none", dev |-> 0, data |-> <<>>, frees |-> 0]
\* the memory behind every pointer value: the staging buffer of each device
\* and the caller's own array
NoStaging == [p \in Devices \cup {CallerPtr} |->
                IF p = CallerPtr THEN [NoBuf EXCEPT !.st = "caller"] ELSE NoBuf]

args_vars == <<m, k, n_search_items, X1, X2, search_items1, search_items2,
               device_count>>

EmptyCOO == [rows |-> <<>>, cols |-> <<>>, vals |-> <<>>, nnz |-> 0]

\* the state of a graph builder that is not running
GraphUnused ==
  /\ g_pc = "idle"
  /\ metric = "L2SqrtExpanded"
  /\ min_samples = 0
  /\ n_neighbors = 0
  /\ alpha2 = 2
  /\ coo_rows = <<>>
  /\ core_dists = <<>>
  /\ indptr = <<>>
  /\ out = EmptyCOO
  /\ g_alloc = {}
  /\ device_work = 0

\* compute_knn_GF was called directly
GraphIdle ==
  /\ entry = "compute_knn_GF"
  /\ GraphUnused

\* state at entry of compute_knn_GF (lines 185-221)
KnnInit ==
  /\ m \in 0..MaxM
  /\ \E layout \in Layouts :
       /\ X1 = Points1(layout, m)
       /\ X2 = Points2(layout, m)
  /\ \/ /\ n_search_items = m            \* the query set is the point set
        /\ search_items1 = X1
        /\ search_items2 = X2
     \/ /\ n_search_items \in 0..MaxQ
        /\ search_items1 = [r \in 0..(n_search_items - 1) |->
                              Points1("fold", n_search_items)[r] + 2]
        /\ search_items2 = Points2("fold", n_search_items)
  /\ k \in 1..MaxK
  /\ k <= m \/ n_search_items = 0        \* the engine needs k reference rows
  /\ device_count \in 1..MaxDevices
  /\ cur_device \in 0..(device_count - 1)
  /\ pc = "discover"
  /\ num_devices = 0
  /\ sentinel_device = 0
  /\ stage_i = 0
  /\ per_device_x1 = <<>>
  /\ per_device_x2 = <<>>
  /\ inputs1_vec = <<>>
  /\ inputs2_vec = <<>>
  /\ staged1 = NoStaging
  /\ staged2 = NoStaging
  /\ int64_indices = <<>>
  /\ dists = Array(k * n_search_items, Uninit)
  /\ inds = Array(k * n_search_items, Uninit)
  /\ master_iter = NoIter
  /\ it_pc = [i \in Devices |-> "todo"]
  /\ it_start = [i \in Devices |-> 0]
  /\ it_len = [i \in Devices |-> 0]
  /\ it_inds = [i \in Devices |-> <<>>]
  /\ it_dists = [i \in Devices |-> <<>>]
  /\ wr_dists = Array(k * n_search_items, <<>>)
  /\ wr_inds = Array(k * n_search_items, <<>>)
  /\ rmm_live = {}
  /\ sizes = <<Narrow(m)>>               \* line 217
  /\ cuda_errors = {}
  /\ GraphIdle

\* ------------------------------------------------------ memory helpers
\* cudaMemcpy of cnt elements of src to arr + off
WriteRange(arr, off, src, cnt) ==
  [e \in DOMAIN arr |-> IF off <= e /\ e < off + cnt THEN src[e - off] ELSE arr[e]]
\* the history of the same copy, made by iteration i
NoteRange(wr, off, cnt, i) ==
  [e \in DOMAIN wr |-> IF off <= e /\ e < off + cnt THEN Append(wr[e], i) ELSE wr[e]]

\* rows of a read through ptr that are outside the array, or in freed memory
BadRows(ptr, staged, rows) ==
  IF ptr # CallerPtr /\ staged[ptr].st # "alloc" THEN rows
  ELSE {r \in rows : r >= m}
\* row r read through ptr (the caller's array or a staging buffer)
ReadRow(ptr, caller, staged, r, junk) ==
  IF r \in DOMAIN junk THEN junk[r]
  ELSE IF ptr = CallerPtr THEN caller[r] ELSE staged[ptr].data[r]
\* the whole reference array behind ptr
RefArray(ptr, caller, staged) ==
  IF ptr = CallerPtr THEN caller ELSE staged[ptr].data

\* cudaFree of a pointer: a no-op on NULL, else the memory is released (a
\* second free of the same pointer is counted too)
CudaFree(buf) ==
  IF buf.st = "null" THEN buf ELSE [buf EXCEPT !.st = "freed", !.frees = @ + 1]

\* a staging test that takes device 0 for the home device
StagesCopy_NonZero(i, home) == i # 0
\* the test of line 241: device i gets private copies of the point arrays
StagesCopy(i, home) == i # home

\* a branch test that sends every device through the gather branch
GatherBranch_Always(i, home) == TRUE
\* the test of line 314: device i searches into partial buffers, gathers
\* them and frees its staging buffers
GatherBranch(i, home) == i # home

\* a loop end that does not wait for the iterations
LoopFinished_NoBarrier(D, ipc) == TRUE
\* the implicit barrier of the parallel loop (lines 289-340): every iteration
\* has run to its end
LoopFinished(D, ipc) == \A i \in 0..(D - 1) : ipc[i] = "done"

\* the merged 64-bit index scratch (line 285), owned by no iteration
MergedIndices == {<<"int64_indices", NoIter>>}
\* the partial result buffers of iteration i (lines 318-319)
PartialBuffers(i) == {<<"int64_indices_me", i>>, <<"dists_me", i>>}

\* ------------------------------------------- compute_knn_GF, main thread
\* lines 224-225
Discover ==
  /\ pc = "discover"
  /\ sentinel_device' = cur_device
  /\ num_devices' = device_count
  /\ pc' = "stage"
  /\ UNCHANGED <<args_vars, cur_device, stage_i, per_device_x1,
                 per_device_x2, inputs1_vec, inputs2_vec, staged1, staged2,
                 int64_indices, dists, inds, master_iter, it_pc, it_start,
                 it_len, it_inds, it_dists, wr_dists, wr_inds, rmm_live,
                 sizes, cuda_errors, graph_vars>>

\* one pass of the staging loop, lines 236-279
StageDevice ==
  /\ pc = "stage"
  /\ stage_i < num_devices
  /\ LET i == stage_i IN
     IF StagesCopy(i, sentinel_device)
     THEN /\ cur_device' = i
          /\ staged1' = [staged1 EXCEPT ![i] = [st |-> "alloc", dev |-> i, data |-> X1, frees |-> 0]]
          /\ staged2' = [staged2 EXCEPT ![i] = [st |-> "alloc", dev |-> i, data |-> X2, frees |-> 0]]
          /\ per_device_x1' = Append(per_device_x1, i)
          /\ per_device_x2' = Append(per_device_x2, i)
          /\ inputs1_vec' = Append(inputs1_vec, i)
          /\ inputs2_vec' = Append(inputs2_vec, i)
     ELSE /\ per_device_x1' = Append(per_device_x1, CallerPtr)
          /\ per_device_x2' = Append(per_device_x2, CallerPtr)
          /\ inputs1_vec' = Append(inputs1_vec, CallerPtr)
          /\ inputs2_vec' = Append(inputs2_vec, CallerPtr)
          /\ UNCHANGED <<cur_device, staged1, staged2>>
  /\ stage_i' = stage_i + 1
  /\ UNCHANGED <<args_vars, pc, num_devices, sentinel_device, int64_indices,
                 dists, inds, master_iter, it_pc, it_start, it_len, it_inds,
                 it_dists, wr_dists, wr_inds, rmm_live, sizes, cuda_errors,
                 graph_vars>>

\* loop exit and line 282
StageEnd ==
  /\ pc = "stage"
  /\ stage_i >= num_devices
  /\ cur_device' = sentinel_device
  /\ pc' = "alloc"
  /\ UNCHANGED <<args_vars, num_devices, sentinel_device, stage_i,
                 per_device_x1, per_device_x2, inputs1_vec, inputs2_vec,
                 staged1, staged2, int64_indices, dists, inds, master_iter,
                 it_pc, it_start, it_len, it_inds, it_dists, wr_dists,
                 wr_inds, rmm_live, sizes, cuda_errors, graph_vars>>

\* line 285
AllocIndices ==
  /\ pc = "alloc"
  /\ int64_indices' = Array(k * n_search_items, Uninit)
  /\ rmm_live' = rmm_live \cup MergedIndices
  /\ pc' = "parallel"
  /\ UNCHANGED <<args_vars, cur_device, num_devices, sentinel_device,
                 stage_i, per_device_x1, per_device_x2, inputs1_vec,
                 inputs2_vec, staged1, staged2, dists, inds, master_iter,
                 it_pc, it_start, it_len, it_inds, it_dists, wr_dists,
                 wr_inds, sizes, cuda_errors, graph_vars>>

\* ---------------------------------------- compute_knn_GF, loop iterations
\* The team of the parallel loop (line 289) is the calling thread and up to
\* num_devices - 1 workers.  An iteration is taken by the calling thread
\* (byMaster) or by a worker; a team of fewer threads only removes
\* interleavings, the serial one being the calling thread taking every
\* iteration in turn.
\* lines 290-311: a thread takes iteration i, binds device i and partitions;
\* the calling thread is left running iteration `running` (NoIter when the
\* step runs the iteration to its end)
IterBegin(byMaster, i, running) ==
  /\ pc = "parallel"
  /\ i < num_devices
  /\ it_pc[i] = "todo"
  /\ IF byMaster
     THEN /\ master_iter = NoIter
          /\ master_iter' = running
          /\ cur_device' = i
     ELSE UNCHANGED <<master_iter, cur_device>>
  /\ it_len' = [it_len EXCEPT ![i] = NumSearchItemsMe(n_search_items, num_devices, i)]
  /\ it_start' = [it_start EXCEPT ![i] = StartPosIdx(n_search_items, num_devices, i)]

\* the end of iteration i releases the thread that ran it
IterEnd(i) ==
  master_iter' = IF master_iter = i THEN NoIter ELSE master_iter

\* the sub-search of iteration i (the brute_force_knn_GF call of line 320 or
\* 336): reference set inputs1_vec[i], inputs2_vec[i]; query rows read from
\* per_device_x1[i] + n1*start_pos_idx and per_device_x2[i] + n2*start_pos_idx
SubSearch(i, start, len, junk1, junk2) ==
  LET p1 == per_device_x1[i + 1]
      p2 == per_device_x2[i + 1]
      Q1 == [r \in 0..(len - 1) |-> ReadRow(p1, X1, staged1, start + r, junk1)]
      Q2 == [r \in 0..(len - 1) |-> ReadRow(p2, X2, staged2, start + r, junk2)]
  IN  BruteForceKnn(RefArray(inputs1_vec[i + 1], X1, staged1),
                    RefArray(inputs2_vec[i + 1], X2, staged2),
                    sizes[1], Q1, Q2, len, k)

\* the query rows the sub-search of iteration i reads
ChunkRows(i) ==
  LET start == StartPosIdx(n_search_items, num_devices, i)
  IN  start..(start + NumSearchItemsMe(n_search_items, num_devices, i) - 1)

\* lines 290-320, a device other than the home device
IterSearch(byMaster, i) ==
  /\ IterBegin(byMaster, i, i)
  /\ GatherBranch(i, sentinel_device)
  /\ \E junk1 \in [BadRows(per_device_x1[i + 1], staged1, ChunkRows(i)) -> JunkVals],
        junk2 \in [BadRows(per_device_x2[i + 1], staged2, ChunkRows(i)) -> JunkVals] :
       LET res == SubSearch(i, it_start'[i], it_len'[i], junk1, junk2) IN
         /\ it_inds' = [it_inds EXCEPT ![i] = res.ind]
         /\ it_dists' = [it_dists EXCEPT ![i] = res.dist]
  /\ rmm_live' = rmm_live \cup PartialBuffers(i)
  /\ it_pc' = [it_pc EXCEPT ![i] = "copy_dists"]
  /\ UNCHANGED <<args_vars, pc, num_devices, sentinel_device, stage_i,
                 per_device_x1, per_device_x2, inputs1_vec, inputs2_vec,
                 staged1, staged2, int64_indices, dists, inds, wr_dists,
                 wr_inds, sizes, cuda_errors, graph_vars>>

\* a gather that frees the staging buffers before it copies
IterCopyDists_FreeFirst(i) ==
  /\ pc = "parallel"
  /\ it_pc[i] = "copy_dists"
  /\ staged1' = [staged1 EXCEPT ![per_device_x1[i + 1]] = CudaFree(@)]
  /\ staged2' = [staged2 EXCEPT ![per_device_x2[i + 1]] = CudaFree(@)]
  /\ dists' = WriteRange(dists, it_start[i] * k, it_dists[i], it_len[i] * k)
  /\ wr_dists' = NoteRange(wr_dists, it_start[i] * k, it_len[i] * k, i)
  /\ it_pc' = [it_pc EXCEPT ![i] = "copy_inds"]
  /\ UNCHANGED <<args_vars, cur_device, pc, num_devices, sentinel_device,
                 stage_i, per_device_x1, per_device_x2, inputs1_vec,
                 inputs2_vec, int64_indices, inds, master_iter, it_start,
                 it_len, it_inds, it_dists, wr_inds, rmm_live, sizes,
                 cuda_errors, graph_vars>>

\* line 323
IterCopyDists(i) ==
  /\ pc = "parallel"
  /\ it_pc[i] = "copy_dists"
  /\ dists' = WriteRange(dists, it_start[i] * k, it_dists[i], it_len[i] * k)
  /\ wr_dists' = NoteRange(wr_dists, it_start[i] * k, it_len[i] * k, i)
  /\ it_pc' = [it_pc EXCEPT ![i] = "copy_inds"]
  /\ UNCHANGED <<args_vars, cur_device, pc, num_devices, sentinel_device,
                 stage_i, per_device_x1, per_device_x2, inputs1_vec,
                 inputs2_vec, staged1, staged2, int64_indices, inds,
                 master_iter, it_start, it_len, it_inds, it_dists, wr_inds,
                 rmm_live, sizes, cuda_errors, graph_vars>>

\* line 326
IterCopyInds(i) ==
  /\ pc = "parallel"
  /\ it_pc[i] = "copy_inds"
  /\ int64_indices' = WriteRange(int64_indices, it_start[i] * k, it_inds[i], it_len[i] * k)
  /\ wr_inds' = NoteRange(wr_inds, it_start[i] * k, it_len[i] * k, i)
  /\ it_pc' = [it_pc EXCEPT ![i] = "free"]
  /\ UNCHANGED <<args_vars, cur_device, pc, num_devices, sentinel_device,
                 stage_i, per_device_x1, per_device_x2, inputs1_vec,
                 inputs2_vec, staged1, staged2, dists, inds, master_iter,
                 it_start, it_len, it_inds, it_dists, wr_dists, rmm_live,
                 sizes, cuda_errors, graph_vars>>

\* lines 329-334: both staging buffers are freed and the iteration ends (the
\* partial buffers go out of scope)
IterFree(i) ==
  /\ pc = "parallel"
  /\ it_pc[i] = "free"
  /\ staged1' = [staged1 EXCEPT ![per_device_x1[i + 1]] = CudaFree(@)]
  /\ staged2' = [staged2 EXCEPT ![per_device_x2[i + 1]] = CudaFree(@)]
  /\ it_inds' = [it_inds EXCEPT ![i] = <<>>]
  /\ it_dists' = [it_dists EXCEPT ![i] = <<>>]
  /\ rmm_live' = rmm_live \ PartialBuffers(i)
  /\ it_pc' = [it_pc EXCEPT ![i] = "done"]
  /\ IterEnd(i)
  /\ UNCHANGED <<args_vars, cur_device, pc, num_devices, sentinel_device,
                 stage_i, per_device_x1, per_device_x2, inputs1_vec,
                 inputs2_vec, int64_indices, dists, inds, it_start, it_len,
                 wr_dists, wr_inds, sizes, cuda_errors, graph_vars>>

\* lines 290-311 and 336, the home device: the search writes the merged
\* arrays directly
IterSearchHome(byMaster, i) ==
  /\ IterBegin(byMaster, i, NoIter)
  /\ ~GatherBranch(i, sentinel_device)
  /\ \E junk1 \in [BadRows(per_device_x1[i + 1], staged1, ChunkRows(i)) -> JunkVals],
        junk2 \in [BadRows(per_device_x2[i + 1], staged2, ChunkRows(i)) -> JunkVals] :
       LET res == SubSearch(i, it_start'[i], it_len'[i], junk1, junk2) IN
         /\ int64_indices' = WriteRange(int64_indices, it_start'[i] * k, res.ind, it_len'[i] * k)
         /\ dists' = WriteRange(dists, it_start'[i] * k, res.dist, it_len'[i] * k)
  /\ wr_inds' = NoteRange(wr_inds, it_start'[i] * k, it_len'[i] * k, i)
  /\ wr_dists' = NoteRange(wr_dists, it_start'[i] * k, it_len'[i] * k, i)
  /\ it_pc' = [it_pc EXCEPT ![i] = "done"]
  /\ UNCHANGED <<args_vars, pc, num_devices, sentinel_device, stage_i,
                 per_device_x1, per_device_x2, inputs1_vec, inputs2_vec,
                 staged1, staged2, inds, it_inds, it_dists, rmm_live, sizes,
                 cuda_errors, graph_vars>>

\* lines 310-336: the query pointer of iteration i runs past its array, and
\* the sub-search's read of it ends the process instead of returning garbage
IterSearchCrash(i) ==
  /\ pc = "parallel"
  /\ i < num_devices
  /\ it_pc[i] = "todo"
  /\ \/ BadRows(per_device_x1[i + 1], staged1, ChunkRows(i)) # {}
     \/ BadRows(per_device_x2[i + 1], staged2, ChunkRows(i)) # {}
  /\ pc' = "crashed"
  /\ UNCHANGED <<args_vars, cur_device, num_devices, sentinel_device,
                 stage_i, per_device_x1, per_device_x2, inputs1_vec,
                 inputs2_vec, staged1, staged2, int64_indices, dists, inds,
                 master_iter, it_pc, it_start, it_len, it_inds, it_dists,
                 wr_dists, wr_inds, rmm_live, sizes, cuda_errors, graph_vars>>

\* the implicit barrier at the end of the parallel loop, line 340
Join ==
  /\ pc = "parallel"
  /\ LoopFinished(num_devices, it_pc)
  /\ pc' = "finalize"
  /\ UNCHANGED <<args_vars, cur_device, num_devices, sentinel_device,
                 stage_i, per_device_x1, per_device_x2, inputs1_vec,
                 inputs2_vec, staged1, staged2, int64_indices, dists, inds,
                 master_iter, it_pc, it_start, it_len, it_inds, it_dists,
                 wr_dists, wr_inds, rmm_live, sizes, cuda_errors, graph_vars>>

\* an end of the call that leaves the calling thread on its last device
Finalize_NoRestore ==
  /\ pc = "finalize"
  /\ pc' = "narrow"
  /\ UNCHANGED <<args_vars, cur_device, num_devices, sentinel_device,
                 stage_i, per_device_x1, per_device_x2, inputs1_vec,
                 inputs2_vec, staged1, staged2, int64_indices, dists, inds,
                 master_iter, it_pc, it_start, it_len, it_inds, it_dists,
                 wr_dists, wr_inds, rmm_live, sizes, cuda_errors, graph_vars>>

\* line 362
Finalize ==
  /\ pc = "finalize"
  /\ cur_device' = sentinel_device
  /\ pc' = "narrow"
  /\ UNCHANGED <<args_vars, num_devices, sentinel_device, stage_i,
                 per_device_x1, per_device_x2, inputs1_vec, inputs2_vec,
                 staged1, staged2, int64_indices, dists, inds, master_iter,
                 it_pc, it_start, it_len, it_inds, it_dists, wr_dists,
                 wr_inds, rmm_live, sizes, cuda_errors, graph_vars>>

\* lines 365-370: the narrowing, then the function returns and its scratch
\* goes out of scope
NarrowIndices ==
  /\ pc = "narrow"
  /\ inds' = [e \in DOMAIN inds |-> Narrow(int64_indices[e])]
  /\ rmm_live' = {}
  /\ pc' = "done"
  /\ UNCHANGED <<args_vars, cur_device, num_devices, sentinel_device,
                 stage_i, per_device_x1, per_device_x2, inputs1_vec,
                 inputs2_vec, staged1, staged2, int64_indices, dists,
                 master_iter, it_pc, it_start, it_len, it_inds, it_dists,
                 wr_dists, wr_inds, sizes, cuda_errors, graph_vars>>

KnnNext ==
  \/ Discover
  \/ StageDevice
  \/ StageEnd
  \/ AllocIndices
  \/ \E byMaster \in BOOLEAN, i \in Devices : IterSearch(byMaster, i)
  \/ \E i \in Devices : IterCopyDists(i)
  \/ \E i \in Devices : IterCopyInds(i)
  \/ \E i \in Devices : IterFree(i)
  \/ \E byMaster \in BOOLEAN, i \in Devices : IterSearchHome(byMaster, i)
  \/ \E i \in Devices : IterSearchCrash(i)
  \/ Join
  \/ Finalize
  \/ NarrowIndices

Init == KnnInit
Next == KnnNext
Spec == Init /\ [][Next]_vars

\* ------------------------------------------- compute_knn_GF, fair threads
\* the steps of the calling thread outside the parallel loop
MainThread ==
  \/ Discover
  \/ StageDevice
  \/ StageEnd
  \/ AllocIndices
  \/ Join
  \/ Finalize
  \/ NarrowIndices

\* the steps of the thread that runs iteration i of the parallel loop (lines
\* 289-340): none of them is guarded by the state of another iteration
DeviceThread(i) ==
  \/ \E byMaster \in BOOLEAN : IterSearch(byMaster, i)
  \/ IterCopyDists(i)
  \/ IterCopyInds(i)
  \/ IterFree(i)
  \/ \E byMaster \in BOOLEAN : IterSearchHome(byMaster, i)

\* a call as the graph builder makes it (line 507): the query set is the point
\* set itself, so every query row read through per_device_x1[i] and
\* per_device_x2[i] (lines 310-311) lies inside the array
LiveInit ==
  /\ KnnInit
  /\ n_search_items = m
  /\ search_items1 = X1
  /\ search_items2 = X2

\* the steps of a call in which no device operation fails
LiveNext ==
  \/ MainThread
  \/ \E i \in Devices : DeviceThread(i)

\* every thread of the team is scheduled again and again: the threads are
\* operating-system threads, and no step of the call blocks except the
\* barrier at the end of the loop
Fairness ==
  /\ WF_vars(MainThread)
  /\ \A i \in Devices : WF_vars(DeviceThread(i))

SpecLive == LiveInit /\ [][LiveNext]_vars /\ Fairness

\* ------------------------------------------ compute_knn_GF, failing calls
\* check() (lines 42-55) prints a failed call's error and returns: the
\* statement after CHECK_CUDA_ERROR runs as if the call had succeeded.
\* what check() reports: the call, the phase and the device index; cause
\* tells a call that failed of itself from one that failed because an
\* earlier one had
Reported(call, at, i, cause) ==
  [call |-> call, at |-> at, dev |-> i, cause |-> cause]
\* one more call may fail of itself
MayFail == Cardinality({e \in cuda_errors : e.cause = "fault"}) < MaxFaults
\* what uninitialized or invalid device memory of n rows may read as
JunkArrays(n) == {Array(n, v) : v \in JunkVals}

\* one pass of the staging loop (lines 241-261) in which the cudaMalloc or
\* the cudaMemcpy of one of the two arrays fails.  A failed cudaMalloc leaves
\* new_ptr NULL, and the cudaMemcpy to it fails in turn; a failed cudaMemcpy
\* leaves the buffer uninitialized.  The pointer is pushed all the same.
StageDeviceFault ==
  /\ pc = "stage"
  /\ stage_i < num_devices
  /\ StagesCopy(stage_i, sentinel_device)
  /\ MayFail
  /\ \E call \in {"cudaMalloc", "cudaMemcpy"}, arr \in {1, 2}, junk \in JunkArrays(m) :
       LET i == stage_i
           good(X) == [st |-> "alloc", dev |-> i, data |-> X, frees |-> 0]
           bad == [st |-> IF call = "cudaMalloc" THEN "null" ELSE "alloc",
                   dev |-> i, data |-> junk, frees |-> 0]
       IN  /\ staged1' = [staged1 EXCEPT ![i] = IF arr = 1 THEN bad ELSE good(X1)]
           /\ staged2' = [staged2 EXCEPT ![i] = IF arr = 2 THEN bad ELSE good(X2)]
           /\ cuda_errors' = cuda_errors
                \cup {Reported(call, "stage", i, "fault")}
                \cup IF call = "cudaMalloc"
                     THEN {Reported("cudaMemcpy", "stage", i, "consequence")}
                     ELSE {}
  /\ cur_device' = stage_i
  /\ per_device_x1' = Append(per_device_x1, stage_i)
  /\ per_device_x2' = Append(per_device_x2, stage_i)
  /\ inputs1_vec' = Append(inputs1_vec, stage_i)
  /\ inputs2_vec' = Append(inputs2_vec, stage_i)
  /\ stage_i' = stage_i + 1
  /\ UNCHANGED <<args_vars, pc, num_devices, sentinel_device, int64_indices,
                 dists, inds, master_iter, it_pc, it_start, it_len, it_inds,
                 it_dists, wr_dists, wr_inds, rmm_live, sizes, graph_vars>>

\* lines 290-336: a thread takes iteration i and binds device i (line 298),
\* and the sub-search of line 320 or 336 fails.  The engine reports failure
\* by an exception, which leaves the parallel region uncaught and ends the
\* process; nothing between the throw and the end of the process touches the
\* calling thread's device binding.
IterSearchThrow(byMaster, i) ==
  /\ pc = "parallel"
  /\ i < num_devices
  /\ it_pc[i] = "todo"
  /\ MayFail
  /\ IF byMaster
     THEN /\ master_iter = NoIter
          /\ master_iter' = i
          /\ cur_device' = i
     ELSE UNCHANGED <<master_iter, cur_device>>
  /\ cuda_errors' = cuda_errors \cup {Reported("brute_force_knn_GF", "search", i, "fault")}
  /\ pc' = "crashed"
  /\ UNCHANGED <<args_vars, num_devices, sentinel_device, stage_i,
                 per_device_x1, per_device_x2, inputs1_vec, inputs2_vec,
                 staged1, staged2, int64_indices, dists, inds, it_pc,
                 it_start, it_len, it_inds, it_dists, wr_dists, wr_inds,
                 rmm_live, sizes, graph_vars>>

\* one pass of the staging loop for a device other than the home device
\* (lines 241-261) in which a push_back of lines 253-261 cannot get host
\* memory: the device is bound (line 244), both buffers are allocated and
\* filled, and std::bad_alloc leaves compute_knn_GF, which has no handler and
\* no scope guard
StageThrow ==
  /\ pc = "stage"
  /\ stage_i < num_devices
  /\ StagesCopy(stage_i, sentinel_device)
  /\ MayFail
  /\ cur_device' = stage_i
  /\ staged1' = [staged1 EXCEPT ![stage_i] = [st |-> "alloc", dev |-> stage_i, data |-> X1, frees |-> 0]]
  /\ staged2' = [staged2 EXCEPT ![stage_i] = [st |-> "alloc", dev |-> stage_i, data |-> X2, frees |-> 0]]
  /\ cuda_errors' = cuda_errors \cup {Reported("push_back", "stage_throw", stage_i, "fault")}
  /\ pc' = "thrown"
  /\ UNCHANGED <<args_vars, num_devices, sentinel_device, stage_i,
                 per_device_x1, per_device_x2, inputs1_vec, inputs2_vec,
                 int64_indices, dists, inds, master_iter, it_pc, it_start,
                 it_len, it_inds, it_dists, wr_dists, wr_inds, rmm_live,
                 sizes, graph_vars>>

\* line 323 with a failing cudaMemcpy: nothing is written to dists
IterCopyDistsFault(i) ==
  /\ pc = "parallel"
  /\ it_pc[i] = "copy_dists"
  /\ MayFail
  /\ cuda_errors' = cuda_errors \cup {Reported("cudaMemcpy", "gather_dists", i, "fault")}
  /\ it_pc' = [it_pc EXCEPT ![i] = "copy_inds"]
  /\ UNCHANGED <<args_vars, cur_device, pc, num_devices, sentinel_device,
                 stage_i, per_device_x1, per_device_x2, inputs1_vec,
                 inputs2_vec, staged1, staged2, int64_indices, dists, inds,
                 master_iter, it_start, it_len, it_inds, it_dists, wr_dists,
                 wr_inds, rmm_live, sizes, graph_vars>>

\* line 326 with a failing cudaMemcpy: nothing is written to int64_indices
IterCopyIndsFault(i) ==
  /\ pc = "parallel"
  /\ it_pc[i] = "copy_inds"
  /\ MayFail
  /\ cuda_errors' = cuda_errors \cup {Reported("cudaMemcpy", "gather_inds", i, "fault")}
  /\ it_pc' = [it_pc EXCEPT ![i] = "free"]
  /\ UNCHANGED <<args_vars, cur_device, pc, num_devices, sentinel_device,
                 stage_i, per_device_x1, per_device_x2, inputs1_vec,
                 inputs2_vec, staged1, staged2, int64_indices, dists, inds,
                 master_iter, it_start, it_len, it_inds, it_dists, wr_dists,
                 wr_inds, rmm_live, sizes, graph_vars>>

\* lines 329-334 with a failing cudaFree of one staging buffer, which stays
\* allocated; the other is freed and the iteration ends
IterFreeFault(i) ==
  /\ pc = "parallel"
  /\ it_pc[i] = "free"
  /\ MayFail
  /\ \E arr \in {1, 2} :
       /\ staged1' = IF arr = 1 THEN staged1
                     ELSE [staged1 EXCEPT ![per_device_x1[i + 1]] = CudaFree(@)]
       /\ staged2' = IF arr = 2 THEN staged2
                     ELSE [staged2 EXCEPT ![per_device_x2[i + 1]] = CudaFree(@)]
  /\ cuda_errors' = cuda_errors \cup {Reported("cudaFree", "free", i, "fault")}
  /\ it_inds' = [it_inds EXCEPT ![i] = <<>>]
  /\ it_dists' = [it_dists EXCEPT ![i] = <<>>]
  /\ rmm_live' = rmm_live \ PartialBuffers(i)
  /\ it_pc' = [it_pc EXCEPT ![i] = "done"]
  /\ IterEnd(i)
  /\ UNCHANGED <<args_vars, cur_device, pc, num_devices, sentinel_device,
                 stage_i, per_device_x1, per_device_x2, inputs1_vec,
                 inputs2_vec, int64_indices, dists, inds, it_start, it_len,
                 wr_dists, wr_inds, sizes, graph_vars>>

FaultNext ==
  \/ KnnNext
  \/ StageDeviceFault
  \/ StageThrow
  \/ \E byMaster \in BOOLEAN, i \in Devices : IterSearchThrow(byMaster, i)
  \/ \E i \in Devices : IterCopyDistsFault(i)
  \/ \E i \in Devices : IterCopyIndsFault(i)
  \/ \E i \in Devices : IterFreeFault(i)

SpecFault == Init /\ [][FaultNext]_vars

\* ===================== core_distances and the mutual reachability graphs
Seq0(sq) == [e \in 0..(Len(sq) - 1) |-> sq[e + 1]]

\* arr[idx]; a read outside the array returns garbage
At(arr, idx) == IF idx \in DOMAIN arr THEN arr[idx] ELSE Uninit

\* a gather that takes the nearest neighbour's column
CoreDistances_FirstColumn(knn_dists, min_pts, nn, n) ==
  [row \in 0..(n - 1) |-> At(knn_dists, row * nn)]

\* a gather that strides the rows by min_samples instead of n_neighbors
CoreDistances_MinPtsStride(knn_dists, min_pts, nn, n) ==
  [row \in 0..(n - 1) |-> At(knn_dists, row * min_pts + (min_pts - 1))]

\* the kernel of core_distances, lines 103-105
CoreDistances(knn_dists, min_pts, nn, n) ==
  [row \in 0..(n - 1) |-> At(knn_dists, row * nn + (min_pts - 1))]

\* a neighbourhood check that lets min_samples = n_neighbors + 1 through
NeighborhoodOk_OffByOne(nn, min_pts) == nn + 1 >= min_pts

\* the ASSERT of core_distances, line 94
NeighborhoodOk(nn, min_pts) == nn >= min_pts

\* a metric check that accepts every metric
MetricSupported_Any(mt) == TRUE

\* the RAFT_EXPECTS of lines 428 and 493
MetricSupported(mt) == mt = "L2SqrtExpanded"

\* a row_ind one entry short
CsrRowIndSize_Short(mm) == mm

\* the size of indptr handed to sorted_coo_to_csr, lines 461 and 543
CsrRowIndSize(mm) == mm + 1

\* compute_knn, lines 135-166: one search of the nq query rows S against the
\* mm rows of X, the 64-bit indices narrowed to value_idx
ComputeKnn(X, mm, S, nq, kk) ==
  LET res == BruteForceKnn(X, Array(mm, 0), mm, S, Array(nq, 0), nq, kk)
  IN  [inds  |-> [e \in DOMAIN res.ind |-> Narrow(res.ind[e])],
       dists |-> res.dist]

\* compute_knn_GF as called on line 507 (query set = point set), without the
\* interleaving: the chunk of each of D devices searched on its own, the
\* partial results gathered at start_pos_idx*k, the indices narrowed
ComputeKnnGF(D, kk) ==
  LET start == [i \in 0..(D - 1) |-> StartPosIdx(m, D, i)]
      len == [i \in 0..(D - 1) |-> NumSearchItemsMe(m, D, i)]
      part == Table([i \in 0..(D - 1) |->
                 LET res == BruteForceKnn(X1, X2, m,
                               [r \in 0..(len[i] - 1) |-> X1[start[i] + r]],
                               [r \in 0..(len[i] - 1) |-> X2[start[i] + r]],
                               len[i], kk)
                 IN  [ind |-> Table(res.ind), dist |-> Table(res.dist)]])
      dev == [e \in 0..(m * kk - 1) |->
                CHOOSE i \in 0..(D - 1) :
                  start[i] * kk <= e /\ e < (start[i] + len[i]) * kk]
  IN  [inds  |-> [e \in 0..(m * kk - 1) |-> Narrow(part[dev[e]].ind[e - start[dev[e]] * kk])],
       dists |-> [e \in 0..(m * kk - 1) |-> part[dev[e]].dist[e - start[dev[e]] * kk]]]

\* the weight scaling by (value_t)1.0 / alpha, alpha = alpha2 / 2
ScaleInvAlpha(v, a2) == (v * 2) \div a2

\* mutual_reachability_knn_l2: the distances rewritten in place
MutualReachabilityKnnL2(I, Dst, mm, nn, core, a2) ==
  [e \in 0..(mm * nn - 1) |->
     ScaleInvAlpha(Max2(core[e \div nn], Max2(core[I[e]], Dst[e])), a2)]

\* a row index that cycles through the neighbour slots
CooRow_Slot(c, min_pts) == c % min_pts

\* the row-index lambda of lines 451-456
CooRow(c, min_pts) == c \div min_pts

\* ascending sequence of a finite set of integers
RECURSIVE SortedSeq(_)
SortedSeq(S) ==
  IF S = {} THEN <<>>
  ELSE LET lo == CHOOSE x \in S : \A y \in S : x <= y
       IN  <<lo>> \o SortedSeq(S \ {lo})

RECURSIVE ConcatRows(_, _, _)
ConcatRows(f, r, n) == IF r >= n THEN <<>> ELSE f[r] \o ConcatRows(f, r + 1, n)

\* raft::sparse::linalg::symmetrize: the nnz directed edges (rows, cols, vals)
\* of an n x n graph merged into one edge per unordered pair, the larger of
\* the directional weights kept, sorted by row then column
Symmetrize(rows, cols, vals, n, nnz) ==
  LET E == 0..(nnz - 1)
      lo(e) == IF rows[e] <= cols[e] THEN rows[e] ELSE cols[e]
      hi(e) == IF rows[e] <= cols[e] THEN cols[e] ELSE rows[e]
      byLo == Table([r \in 0..(n - 1) |-> {e \in E : lo(e) = r}])
      colsOf == Table([r \in 0..(n - 1) |-> {hi(e) : e \in byLo[r]}])
      weight(r, c) ==
        LET ws == {vals[e] : e \in {x \in byLo[r] : hi(x) = c}}
        IN  CHOOSE w \in ws : \A v \in ws : v <= w
      rowTriples == Table([r \in 0..(n - 1) |->
                       LET cs == SortedSeq(colsOf[r])
                       IN  Table([x \in 1..Len(cs) |-> <<r, cs[x], weight(r, cs[x])>>])])
      all == ConcatRows(rowTriples, 0, n)
  IN  [rows |-> [e \in 0..(Len(all) - 1) |-> all[e + 1][1]],
       cols |-> [e \in 0..(Len(all) - 1) |-> all[e + 1][2]],
       vals |-> [e \in 0..(Len(all) - 1) |-> all[e + 1][3]],
       nnz  |-> Len(all)]

\* raft::sparse::convert::sorted_coo_to_csr: the prefix sum of the row
\* counts written over the first n entries of row_ind
SortedCooToCsr(rows, nnz, row_ind, n) ==
  [r \in DOMAIN row_ind |->
     IF r < n THEN Cardinality({e \in 0..(nnz - 1) : rows[e] < r}) ELSE row_ind[r]]

\* a pass that leaves every weight as it was
SelfLoopWeight_Keep(row, col, val) == val

\* the self-loop lambda of lines 471-475
SelfLoopWeight(row, col, val) ==
  IF row = col THEN NumericLimitsMax ELSE val

\* --------------------------------------------------------- graph builders
Metrics == {"L2SqrtExpanded", "L1"}
Alphas2 == {1, 2, 4}            \* alpha = 1/2, 1, 2
KnnShapes == {"unit", "rows"}

\* a KNN distance matrix of n ascending rows of nn columns
KnnDists(shape, n, nn) ==
  [e \in 0..(n * nn - 1) |->
     IF shape = "unit" THEN 2 * (e % nn) ELSE 2 * ((e \div nn) + (e % nn))]

orch_only == <<k, n_search_items, search_items1, search_items2, cur_device,
               pc, num_devices, sentinel_device, stage_i, per_device_x1,
               per_device_x2, inputs1_vec, inputs2_vec, staged1, staged2,
               int64_indices, master_iter, it_pc, it_start, it_len, it_inds,
               it_dists, wr_dists, wr_inds, rmm_live, sizes, cuda_errors>>
points == <<m, X1, X2, device_count>>

\* compute_knn_GF is not running
KnnIdle ==
  /\ k = 0
  /\ n_search_items = 0
  /\ search_items1 = <<>>
  /\ search_items2 = <<>>
  /\ cur_device = 0
  /\ pc = "idle"
  /\ num_devices = 0
  /\ sentinel_device = 0
  /\ stage_i = 0
  /\ per_device_x1 = <<>>
  /\ per_device_x2 = <<>>
  /\ inputs1_vec = <<>>
  /\ inputs2_vec = <<>>
  /\ staged1 = NoStaging
  /\ staged2 = NoStaging
  /\ int64_indices = <<>>
  /\ master_iter = NoIter
  /\ it_pc = [i \in Devices |-> "todo"]
  /\ it_start = [i \in Devices |-> 0]
  /\ it_len = [i \in Devices |-> 0]
  /\ it_inds = [i \in Devices |-> <<>>]
  /\ it_dists = [i \in Devices |-> <<>>]
  /\ wr_dists = <<>>
  /\ wr_inds = <<>>
  /\ rmm_live = {}
  /\ sizes = <<>>
  /\ cuda_errors = {}

\* state at entry of mutual_reachability_graph, mutual_reachability_graph_GF
\* or core_distances
GraphInit ==
  /\ KnnIdle
  /\ entry \in {"mutual_reachability_graph", "mutual_reachability_graph_GF",
                "core_distances"}
  /\ metric \in Metrics
  /\ alpha2 \in Alphas2
  /\ \/ /\ entry = "mutual_reachability_graph"
        /\ m \in 0..MaxM
        /\ \E layout \in Layouts : X1 = Points1(layout, m)
        /\ X2 = Array(m, 0)
        /\ device_count = 1
        /\ min_samples \in 1..MaxK
        /\ min_samples <= m \/ m = 0    \* the engine needs k reference rows
        /\ n_neighbors = 0
        /\ dists = <<>>
     \/ /\ entry = "mutual_reachability_graph_GF"
        /\ m \in {0} \cup (GF_MIN_SAMPLES..(GF_MIN_SAMPLES + MaxGFExtra))
        /\ \E layout \in Layouts :
             /\ X1 = Points1(layout, m)
             /\ X2 = Points2(layout, m)
        /\ device_count \in 1..MaxDevices
        /\ min_samples \in 1..MaxK
        /\ n_neighbors = 0
        /\ dists = <<>>
     \/ /\ entry = "core_distances"
        /\ metric = "L2SqrtExpanded"
        /\ alpha2 = 2
        /\ m \in 0..(MaxM + 1)
        /\ X1 = <<>>
        /\ X2 = <<>>
        /\ device_count = 1
        /\ min_samples \in 1..(MaxK + 1)
        /\ n_neighbors \in 1..(MaxK + 1)
        /\ \E shape \in KnnShapes : dists = KnnDists(shape, m, n_neighbors)
  /\ inds = <<>>
  /\ g_pc = "entry"
  /\ coo_rows = <<>>
  /\ core_dists = Array(m, Uninit)
  /\ indptr = Array(m + 1, Uninit)
  /\ out = EmptyCOO
  /\ g_alloc = {}
  /\ device_work = 0

IsGF == entry = "mutual_reachability_graph_GF"
IsGraph == entry \in {"mutual_reachability_graph", "mutual_reachability_graph_GF"}

\* RAFT_EXPECTS of lines 428 / 493, and for the GF builder line 498
GraphEntry ==
  /\ g_pc = "entry"
  /\ IsGraph
  /\ IF ~MetricSupported(metric)
     THEN /\ g_pc' = "error_metric"
          /\ UNCHANGED min_samples
     ELSE /\ g_pc' = "alloc"
          /\ min_samples' = IF IsGF THEN GF_MIN_SAMPLES ELSE min_samples
  /\ UNCHANGED <<orch_only, points, inds, dists, entry, metric, n_neighbors,
                 alpha2, coo_rows, core_dists, indptr, out, g_alloc,
                 device_work>>

\* lines 434-436 / 500-502
GraphAlloc ==
  /\ g_pc = "alloc"
  /\ coo_rows' = Array(min_samples * m, Uninit)
  /\ inds' = Array(min_samples * m, Uninit)
  /\ dists' = Array(min_samples * m, Uninit)
  /\ g_alloc' = {"coo_rows", "inds", "dists"}
  /\ g_pc' = "knn"
  /\ UNCHANGED <<orch_only, points, entry, metric, min_samples, n_neighbors,
                 alpha2, core_dists, indptr, out, device_work>>

\* line 439
GraphKnn ==
  /\ g_pc = "knn"
  /\ ~IsGF
  /\ LET res == ComputeKnn(X1, m, X1, m, min_samples) IN
       /\ inds' = res.inds
       /\ dists' = res.dists
  /\ device_work' = device_work + 1
  /\ g_pc' = "core"
  /\ UNCHANGED <<orch_only, points, entry, metric, min_samples, n_neighbors,
                 alpha2, coo_rows, core_dists, indptr, out, g_alloc>>

\* line 507
GraphKnnGF ==
  /\ g_pc = "knn"
  /\ IsGF
  /\ LET res == ComputeKnnGF(device_count, min_samples) IN
       /\ inds' = res.inds
       /\ dists' = res.dists
  /\ device_work' = device_work + 1
  /\ g_pc' = "core"
  /\ UNCHANGED <<orch_only, points, entry, metric, min_samples, n_neighbors,
                 alpha2, coo_rows, core_dists, indptr, out, g_alloc>>

\* core_distances, lines 94-105: the ASSERT, then the gather
CoreDistancesCall(min_pts, nn, next) ==
  /\ n_neighbors' = nn
  /\ IF NeighborhoodOk(nn, min_pts)
     THEN /\ core_dists' = CoreDistances(dists, min_pts, nn, m)
          /\ device_work' = device_work + 1
          /\ g_pc' = next
          /\ UNCHANGED g_alloc
     ELSE /\ g_pc' = "error_config"
          /\ g_alloc' = {}
          /\ UNCHANGED <<core_dists, device_work>>

\* line 442 / 524
GraphCore ==
  /\ g_pc = "core"
  /\ IF IsGF
     THEN CoreDistancesCall(min_samples, GF_N_NEIGHBORS, "rows")
     ELSE CoreDistancesCall(min_samples, min_samples, "mr")
  /\ UNCHANGED <<orch_only, points, inds, dists, entry, metric, min_samples,
                 alpha2, coo_rows, indptr, out>>

\* a direct call of core_distances
CoreCall ==
  /\ g_pc = "entry"
  /\ entry = "core_distances"
  /\ CoreDistancesCall(min_samples, n_neighbors, "done")
  /\ UNCHANGED <<orch_only, points, inds, dists, entry, metric, min_samples,
                 alpha2, coo_rows, indptr, out>>

\* a rewrite after which the core distances are extracted again, from the
\* rewritten distances
GraphMutualReachability_CoreAfter ==
  /\ g_pc = "mr"
  /\ dists' = MutualReachabilityKnnL2(inds, dists, m, min_samples, core_dists, alpha2)
  /\ core_dists' = CoreDistances(dists', min_samples, min_samples, m)
  /\ device_work' = device_work + 1
  /\ g_pc' = "rows"
  /\ UNCHANGED <<orch_only, points, inds, entry, metric, min_samples,
                 n_neighbors, alpha2, coo_rows, indptr, out, g_alloc>>

\* lines 447-448 (absent from the GF builder, lines 526-530)
GraphMutualReachability ==
  /\ g_pc = "mr"
  /\ dists' = MutualReachabilityKnnL2(inds, dists, m, min_samples, core_dists, alpha2)
  /\ device_work' = device_work + 1
  /\ g_pc' = "rows"
  /\ UNCHANGED <<orch_only, points, inds, entry, metric, min_samples,
                 n_neighbors, alpha2, coo_rows, core_dists, indptr, out,
                 g_alloc>>

\* lines 451-456 / 533-538
GraphRows ==
  /\ g_pc = "rows"
  /\ coo_rows' = [c \in 0..(m * min_samples - 1) |-> CooRow(c, min_samples)]
  /\ device_work' = device_work + 1
  /\ g_pc' = "symm"
  /\ UNCHANGED <<orch_only, points, inds, dists, entry, metric, min_samples,
                 n_neighbors, alpha2, core_dists, indptr, out, g_alloc>>

\* lines 458-459 / 540-541
GraphSymmetrize ==
  /\ g_pc = "symm"
  /\ out' = Symmetrize(coo_rows, inds, dists, m, min_samples * m)
  /\ device_work' = device_work + 1
  /\ g_pc' = "csr"
  /\ UNCHANGED <<orch_only, points, inds, dists, entry, metric, min_samples,
                 n_neighbors, alpha2, coo_rows, core_dists, indptr, g_alloc>>

\* line 461 / 543
GraphCsr ==
  /\ g_pc = "csr"
  /\ indptr' = SortedCooToCsr(out.rows, out.nnz, indptr, CsrRowIndSize(m))
  /\ device_work' = device_work + 1
  /\ g_pc' = "selfloop"
  /\ UNCHANGED <<orch_only, points, inds, dists, entry, metric, min_samples,
                 n_neighbors, alpha2, coo_rows, core_dists, out, g_alloc>>

\* a pass that forces every weight to the maximum
GraphSelfLoops_EveryEdge ==
  /\ g_pc = "selfloop"
  /\ out' = [out EXCEPT !.vals = [e \in 0..(out.nnz - 1) |-> NumericLimitsMax]]
  /\ device_work' = device_work + 1
  /\ g_alloc' = {}
  /\ g_pc' = "done"
  /\ UNCHANGED <<orch_only, points, inds, dists, entry, metric, min_samples,
                 n_neighbors, alpha2, coo_rows, core_dists, indptr>>

\* lines 463-476 / 545-558: the self-loop pass, then the scratch buffers go
\* out of scope
GraphSelfLoops ==
  /\ g_pc = "selfloop"
  /\ out' = [out EXCEPT !.vals =
               [e \in 0..(out.nnz - 1) |->
                  SelfLoopWeight(out.rows[e], out.cols[e], out.vals[e])]]
  /\ device_work' = device_work + 1
  /\ g_alloc' = {}
  /\ g_pc' = "done"
  /\ UNCHANGED <<orch_only, points, inds, dists, entry, metric, min_samples,
                 n_neighbors, alpha2, coo_rows, core_dists, indptr>>

GraphNext ==
  \/ GraphEntry
  \/ GraphAlloc
  \/ GraphKnn
  \/ GraphKnnGF
  \/ GraphCore
  \/ CoreCall
  \/ GraphMutualReachability
  \/ GraphRows
  \/ GraphSymmetrize
  \/ GraphCsr
  \/ GraphSelfLoops

SpecGraph == GraphInit /\ [][GraphNext]_vars

\* --------------------------------------------------------- compute_knn
\* the largest value of value_idx (and of int, scaled alike)
IdxMax == 2 ^ (IdxBits - 1) - 1

\* the point counts of a direct call: small ones, and those around IdxMax
KnnSizes == (0..MaxM) \cup ((IdxMax - 1)..(IdxMax + MaxOver))

\* state at entry of compute_knn (lines 124-134): X is a line of m points,
\* the query rows are the last n_search_items points, farthest first
KnnSingleInit ==
  /\ entry = "compute_knn"
  /\ GraphUnused
  /\ m \in KnnSizes
  /\ X1 = Points1("line", m)
  /\ X2 = Array(m, 0)
  /\ n_search_items \in 0..MaxQ
  /\ n_search_items <= m
  /\ search_items1 = [r \in 0..(n_search_items - 1) |-> X1[m - 1 - r]]
  /\ search_items2 = Array(n_search_items, 0)
  /\ k \in 1..MaxK
  /\ k <= m \/ n_search_items = 0
  /\ device_count = 1
  /\ cur_device = 0
  /\ pc = "knn_sizes"
  /\ num_devices = 0
  /\ sentinel_device = 0
  /\ stage_i = 0
  /\ per_device_x1 = <<>>
  /\ per_device_x2 = <<>>
  /\ inputs1_vec = <<>>
  /\ inputs2_vec = <<>>
  /\ staged1 = NoStaging
  /\ staged2 = NoStaging
  /\ int64_indices = <<>>
  /\ dists = Array(k * n_search_items, Uninit)
  /\ inds = Array(k * n_search_items, Uninit)
  /\ master_iter = NoIter
  /\ it_pc = [i \in Devices |-> "todo"]
  /\ it_start = [i \in Devices |-> 0]
  /\ it_len = [i \in Devices |-> 0]
  /\ it_inds = [i \in Devices |-> <<>>]
  /\ it_dists = [i \in Devices |-> <<>>]
  /\ wr_dists = <<>>
  /\ wr_inds = <<>>
  /\ rmm_live = {}
  /\ sizes = <<>>
  /\ cuda_errors = {}

\* lines 137-145: sizes.push_back(m) converts the size_t m to int; the
\* 64-bit index scratch is allocated
KnnSizesPush ==
  /\ entry = "compute_knn"
  /\ pc = "knn_sizes"
  /\ sizes' = <<Narrow(m)>>
  /\ int64_indices' = Array(k * n_search_items, Uninit)
  /\ rmm_live' = MergedIndices
  /\ pc' = "knn_search"
  /\ UNCHANGED <<args_vars, cur_device, num_devices, sentinel_device,
                 stage_i, per_device_x1, per_device_x2, inputs1_vec,
                 inputs2_vec, staged1, staged2, dists, inds, master_iter,
                 it_pc, it_start, it_len, it_inds, it_dists, wr_dists,
                 wr_inds, cuda_errors, graph_vars>>

\* what the engine may return as an index when it is handed a row count that
\* is not the row count of the array
JunkIdx(mm) == {0, mm - 1}

\* lines 148-159: the search; with a row count that is not m the engine
\* works on a wrong extent and its result is arbitrary
KnnSearch ==
  /\ entry = "compute_knn"
  /\ pc = "knn_search"
  /\ IF sizes[1] = m
     THEN LET res == BruteForceKnn(X1, X2, sizes[1], search_items1,
                                   search_items2, n_search_items, k)
          IN  /\ int64_indices' = res.ind
              /\ dists' = res.dist
     ELSE \E ji \in JunkIdx(m), jd \in JunkVals :
            /\ int64_indices' = Array(k * n_search_items, ji)
            /\ dists' = Array(k * n_search_items, jd)
  /\ pc' = "knn_narrow"
  /\ UNCHANGED <<args_vars, cur_device, num_devices, sentinel_device,
                 stage_i, per_device_x1, per_device_x2, inputs1_vec,
                 inputs2_vec, staged1, staged2, inds, master_iter, it_pc,
                 it_start, it_len, it_inds, it_dists, wr_dists, wr_inds,
                 rmm_live, sizes, cuda_errors, graph_vars>>

\* lines 148-159: the search on a wrong extent ends the process
KnnSearchCrash ==
  /\ entry = "compute_knn"
  /\ pc = "knn_search"
  /\ sizes[1] # m
  /\ pc' = "crashed"
  /\ UNCHANGED <<args_vars, cur_device, num_devices, sentinel_device,
                 stage_i, per_device_x1, per_device_x2, inputs1_vec,
                 inputs2_vec, staged1, staged2, int64_indices, dists, inds,
                 master_iter, it_pc, it_start, it_len, it_inds, it_dists,
                 wr_dists, wr_inds, rmm_live, sizes, cuda_errors, graph_vars>>

\* lines 162-167: the narrowing, then the scratch goes out of scope
KnnNarrow ==
  /\ entry = "compute_knn"
  /\ pc = "knn_narrow"
  /\ inds' = [e \in DOMAIN inds |-> Narrow(int64_indices[e])]
  /\ rmm_live' = {}
  /\ pc' = "done"
  /\ UNCHANGED <<args_vars, cur_device, num_devices, sentinel_device,
                 stage_i, per_device_x1, per_device_x2, inputs1_vec,
                 inputs2_vec, staged1, staged2, int64_indices, dists,
                 master_iter, it_pc, it_start, it_len, it_inds, it_dists,
                 wr_dists, wr_inds, sizes, cuda_errors, graph_vars>>

KnnSingleNext ==
  \/ KnnSizesPush
  \/ KnnSearch
  \/ KnnSearchCrash
  \/ KnnNarrow

SpecKnn == KnnSingleInit /\ [][KnnSingleNext]_vars

\* ----------------------------------------------------------- properties
\* the parallel loop is over: every device has searched and gathered
Gathered == pc \in {"finalize", "narrow", "done"}

\* row r of a row-major (indices, distances) pair as a set of pairs
RowPairs(I, Dst, r, kk) == {<<I[r * kk + c], Dst[r * kk + c]>> : c \in 0..(kk - 1)}

\* the single-device search of all query rows against the reference set (the
\* call of lines 347-361 that the parallel loop replaces)
SingleSearch ==
  BruteForceKnn(X1, X2, m, search_items1, search_items2, n_search_items, k)

\* C1: once every device has gathered, each row of the merged (indices,
\* distances) arrays equals, as a set of (neighbour, distance) pairs, the row
\* of one single-device search of the n_search_items query rows.
C1_MergedEqualsSingleSearch ==
  Gathered =>
    \A r \in 0..(n_search_items - 1) :
      RowPairs(int64_indices, dists, r, k)
        = RowPairs(SingleSearch.ind, SingleSearch.dist, r, k)

\* the chunk of device i, from the partition the iteration computed
Chunk(i) == it_start[i]..(it_start[i] + it_len[i] - 1)

\* C2: device i starts at i * floor(n/D) and gets floor(n/D) rows, the last
\* device floor(n/D) + n mod D; the chunks are contiguous, pairwise disjoint
\* and cover exactly the rows [0, n_search_items).
C2_PartitionCoversRows ==
  Gathered =>
    LET n == n_search_items
        D == num_devices
    IN  /\ \A i \in 0..(D - 1) :
             /\ it_start[i] = i * (n \div D)
             /\ it_len[i] = IF i = D - 1 THEN (n \div D) + (n % D) ELSE n \div D
             /\ Chunk(i) \subseteq 0..(n - 1)
        /\ it_start[0] = 0
        /\ \A i \in 0..(D - 2) : it_start[i + 1] = it_start[i] + it_len[i]
        /\ it_start[D - 1] + it_len[D - 1] = n
        /\ \A i, j \in 0..(D - 1) : i # j => Chunk(i) \cap Chunk(j) = {}
        /\ UNION {Chunk(i) : i \in 0..(D - 1)} = 0..(n - 1)

\* the partition has acted with a remainder, and with fewer rows than devices
C2_Witness ==
  /\ pc = "done"
  /\ num_devices = 3
  /\ n_search_items = 2
  /\ it_len = [i \in Devices |-> IF i = 2 THEN 2 ELSE 0]

\* the iteration whose chunk holds the row of element e of a merged array
Owner(e) == CHOOSE i \in 0..(num_devices - 1) : (e \div k) \in Chunk(i)

\* C3: in every interleaving no element of the merged distances or merged
\* 64-bit indices is written twice, and once all iterations have finished
\* every element of rows [0, n_search_items) has been written exactly once,
\* by the iteration that owns the chunk of its row.
C3_DisjointWrites ==
  /\ \A e \in DOMAIN wr_dists : Len(wr_dists[e]) <= 1
  /\ \A e \in DOMAIN wr_inds : Len(wr_inds[e]) <= 1
  /\ Gathered =>
       \A e \in 0..(n_search_items * k - 1) :
         /\ wr_dists[e] = <<Owner(e)>>
         /\ wr_inds[e] = <<Owner(e)>>

\* three devices have written their chunks concurrently
C3_Witness ==
  /\ pc = "done"
  /\ num_devices = 3
  /\ n_search_items = 3
  /\ k = 2
  /\ \A i \in 0..2 : wr_dists[2 * i] = <<i>> /\ wr_inds[2 * i + 1] = <<i>>

\* the graph builder has returned its graph
Returned == IsGraph /\ g_pc = "done"
OutEdges == 0..(out.nnz - 1)

\* C4: in the graph returned by either builder every edge (i, j, w) with
\* i # j has w >= max(core_dists[i], core_dists[j]).
C4_EdgeAtLeastCoreDistances ==
  Returned =>
    \A e \in OutEdges :
      out.rows[e] # out.cols[e] =>
        out.vals[e] >= Max2(core_dists[out.rows[e]], core_dists[out.cols[e]])

\* C5: when either builder returns, every edge with rows[e] = cols[e] weighs
\* the maximum finite value of the weight type.
C5_SelfLoopsAtMax ==
  Returned =>
    \A e \in OutEdges :
      out.rows[e] = out.cols[e] => out.vals[e] = NumericLimitsMax

\* a returned graph with a self-loop, whose symmetrized weight was a distance
C5_Witness ==
  /\ Returned
  /\ m = 3
  /\ \E e \in OutEdges :
       out.rows[e] = 2 /\ out.cols[e] = 2 /\ out.vals[e] = NumericLimitsMax

\* C6: when mutual_reachability_graph returns, indptr has m+1 entries,
\* indptr[0] = 0, consecutive entries differ by the number of output edges of
\* that row, indptr is non-decreasing and indptr[m] is the graph's nnz.
C6_IndptrIsRowPrefixSum ==
  (entry = "mutual_reachability_graph" /\ g_pc = "done") =>
    /\ DOMAIN indptr = 0..m
    /\ indptr[0] = 0
    /\ \A r \in 0..(m - 1) :
         /\ indptr[r + 1] - indptr[r]
              = Cardinality({e \in OutEdges : out.rows[e] = r})
         /\ indptr[r] <= indptr[r + 1]
    /\ indptr[m] = out.nnz

\* a returned graph of three rows with edges in each
C6_Witness ==
  /\ entry = "mutual_reachability_graph"
  /\ g_pc = "done"
  /\ m = 3
  /\ indptr = Seq0(<<0, 2, 4, 5>>)

\* the directed edges handed to symmetrization: edge c goes from row
\* floor(c / min_samples) to inds[c] with weight dists[c]
InEdges == 0..(m * min_samples - 1)
SamePair(a1, b1, a2, b2) == {a1, b1} = {a2, b2}
MaxOf(S) == CHOOSE w \in S : \A v \in S : v <= w

\* C7: after symmetrization in mutual_reachability_graph no unordered pair
\* occurs twice in the output, every output edge joins a pair of the input,
\* and every pair {i, j} of the m*min_samples directed input edges has one
\* output edge, weighing the maximum of the input weights of (i,j) and (j,i).
C7_SymmetrizeMergesPairs ==
  (entry = "mutual_reachability_graph" /\ g_pc \in {"csr", "selfloop"}) =>
    /\ \A e1, e2 \in OutEdges :
         SamePair(out.rows[e1], out.cols[e1], out.rows[e2], out.cols[e2]) => e1 = e2
    /\ \A e \in OutEdges : \E c \in InEdges :
         SamePair(out.rows[e], out.cols[e], c \div min_samples, inds[c])
    /\ \A c \in InEdges :
         LET i == c \div min_samples
             j == inds[c]
             ws == {dists[x] : x \in {y \in InEdges :
                                       SamePair(y \div min_samples, inds[y], i, j)}}
         IN  \E e \in OutEdges :
               /\ SamePair(out.rows[e], out.cols[e], i, j)
               /\ out.vals[e] = MaxOf(ws)

\* a symmetrized graph where (1,0) and (0,1) were merged and (2,1) had no
\* reverse edge
C7_Witness ==
  /\ entry = "mutual_reachability_graph"
  /\ g_pc = "csr"
  /\ m = 3
  /\ min_samples = 2
  /\ inds = Seq0(<<0, 1, 1, 0, 2, 1>>)
  /\ out.nnz = 5

\* C8: core_distances writes out[i] = knn_dists[i][min_samples - 1] for every
\* row i of a matrix of n_neighbors >= min_samples >= 1 columns; for the unit
\* square (four rows 0, 1; sides are 2 in the model's units) with min_samples
\* = k = 2 every core distance is one side.
C8_CoreDistanceIsColumn ==
  /\ (entry = "core_distances" /\ g_pc = "done") =>
       /\ n_neighbors >= min_samples
       /\ DOMAIN core_dists = 0..(m - 1)
       /\ \A i \in 0..(m - 1) :
            core_dists[i] = dists[i * n_neighbors + (min_samples - 1)]
       /\ (m = 4 /\ n_neighbors = 2 /\ min_samples = 2
             /\ dists = Seq0(<<0, 2, 0, 2, 0, 2, 0, 2>>))
            => core_dists = Seq0(<<2, 2, 2, 2>>)
  /\ (IsGraph /\ g_pc = "mr") =>
       \A i \in 0..(m - 1) : core_dists[i] = dists[i * min_samples + (min_samples - 1)]

\* core_distances has run on a matrix wider than min_samples
C8_Witness ==
  /\ entry = "core_distances"
  /\ g_pc = "done"
  /\ m = 3
  /\ n_neighbors = 3
  /\ min_samples = 2
  /\ core_dists = Seq0(<<2, 4, 6>>)

\* nothing has been allocated, launched or written by the call
NothingDone ==
  /\ g_alloc = {}
  /\ device_work = 0
  /\ inds = <<>>
  /\ coo_rows = <<>>
  /\ indptr = Array(m + 1, Uninit)
  /\ core_dists = Array(m, Uninit)
  /\ out = EmptyCOO
  /\ pc = "idle"
  /\ cur_device = 0

\* C9: either builder called with a metric other than L2SqrtExpanded fails,
\* and has then allocated no buffer, started no device work and written none
\* of indptr, core_dists and the output graph.
C9_UnsupportedMetricFailsFirst ==
  (IsGraph /\ metric # "L2SqrtExpanded") =>
    /\ g_pc \in {"entry", "error_metric"}
    /\ NothingDone

\* the GF builder has rejected a metric
C9_Witness ==
  /\ entry = "mutual_reachability_graph_GF"
  /\ metric = "L1"
  /\ g_pc = "error_metric"
  /\ m = GF_MIN_SAMPLES

\* C10: with min_samples greater than n_neighbors the operation fails with a
\* configuration error, and has then done no device work, holds no buffer
\* and has written no output array.
C10_SmallNeighborhoodFailsFirst ==
  /\ (entry = "core_distances" /\ min_samples > n_neighbors) =>
       g_pc \in {"entry", "error_config"}
  /\ g_pc = "error_config" =>
       /\ min_samples > n_neighbors
       /\ g_alloc = {}
       /\ device_work = 0
       /\ core_dists = Array(m, Uninit)
       /\ indptr = Array(m + 1, Uninit)
       /\ out = EmptyCOO

\* core_distances has rejected min_samples = 3 on two columns
C10_Witness ==
  /\ g_pc = "error_config"
  /\ min_samples = 3
  /\ n_neighbors = 2
  /\ m = 2

\* a staging allocation or copy has failed of itself
StagingFailed == \E e \in cuda_errors : e.at = "stage" /\ e.cause = "fault"

\* C11: once an allocation or a copy has failed while staging, the call does
\* not reach the parallel loop (partition, dispatch, gather) nor its normal
\* end, and when it has left the staging loop no staging buffer of the call
\* is still allocated.
C11_StagingFailureAborts ==
  StagingFailed =>
    /\ pc \notin {"parallel", "finalize", "narrow", "done"}
    /\ pc # "stage" =>
         \A i \in Devices : staged1[i].st # "alloc" /\ staged2[i].st # "alloc"

\* the sub-search or a gather copy of iteration i has failed
GatherFailed(i) ==
  \E e \in cuda_errors :
    e.dev = i /\ e.at \in {"search", "gather_dists", "gather_inds"}

\* C12: when the call has run to its normal end although the sub-search or a
\* gather copy of device i failed, every element of the rows of device i's
\* chunk has been written in both merged arrays.
C12_GatherFailureIsAnError ==
  pc = "done" =>
    \A i \in 0..(num_devices - 1) :
      GatherFailed(i) =>
        \A e \in (it_start[i] * k)..((it_start[i] + it_len[i]) * k - 1) :
          wr_dists[e] # <<>> /\ wr_inds[e] # <<>>

\* C13: when compute_knn_GF has returned, the calling thread's current device
\* is sentinel_device, and sentinel_device is the device the calling thread
\* was bound to at entry: it is read from the current device in the first
\* step and never changes afterwards.
C13_HomeDeviceRestored ==
  /\ [](pc = "done" => cur_device = sentinel_device)
  /\ [][/\ pc = "discover" => sentinel_device' = cur_device
        /\ pc # "discover" => sentinel_device' = sentinel_device]_vars

\* a call on three devices has returned to home device 1, after the calling
\* thread was bound to devices 0 and 2 for staging
C13_Witness ==
  /\ pc = "done"
  /\ num_devices = 3
  /\ sentinel_device = 1
  /\ cur_device = 1
  /\ staged1[0].st = "freed"
  /\ staged1[2].st = "freed"

\* the devices that got staging copies
Staged == {i \in 0..(num_devices - 1) : i # sentinel_device}

\* C14: no staging buffer is ever freed twice and the caller's arrays are
\* never freed or written; when compute_knn_GF has returned, no scratch
\* buffer of the call (partial results, 64-bit indices) is alive and every
\* staging buffer of the call has been freed, exactly once.
C14_NoBufferOutlivesTheCall ==
  /\ [](/\ \A p \in Devices : staged1[p].frees <= 1 /\ staged2[p].frees <= 1
        /\ staged1[CallerPtr] = NoStaging[CallerPtr]
        /\ staged2[CallerPtr] = NoStaging[CallerPtr]
        /\ pc = "done" =>
             /\ rmm_live = {}
             /\ \A i \in 0..(num_devices - 1) : it_inds[i] = <<>> /\ it_dists[i] = <<>>
             /\ \A p \in Devices :
                  /\ staged1[p].st = IF p \in Staged THEN "freed" ELSE "none"
                  /\ staged2[p].st = IF p \in Staged THEN "freed" ELSE "none"
                  /\ staged1[p].frees = IF p \in Staged THEN 1 ELSE 0
                  /\ staged2[p].frees = IF p \in Staged THEN 1 ELSE 0)
  /\ [][X1' = X1 /\ X2' = X2]_vars

\* a call on three devices has returned: two pairs of staging buffers were
\* allocated and freed
C14_Witness ==
  /\ pc = "done"
  /\ num_devices = 3
  /\ m = 3
  /\ Staged = {0, 2}
  /\ \A p \in Staged : staged1[p].frees = 1 /\ staged2[p].data = X2

\* C15: a graph builder called with m = 0 and the supported metric never
\* ends in an error and always has a next step until it returns; when it
\* returns, indptr is [0], core_dists is empty and the graph has no edge.
C15_EmptyPointSetIsNotAnError ==
  (IsGraph /\ m = 0 /\ MetricSupported(metric)) =>
    /\ g_pc \notin {"error_metric", "error_config"}
    /\ g_pc # "done" => ENABLED GraphNext
    /\ g_pc = "done" =>
         /\ indptr = Seq0(<<0>>)
         /\ DOMAIN core_dists = {}
         /\ out.nnz = 0
         /\ DOMAIN out.rows = {}

\* mutual_reachability_graph has returned from a call with m = 0
C15_Witness ==
  /\ entry = "mutual_reachability_graph"
  /\ m = 0
  /\ g_pc = "done"
  /\ indptr = Seq0(<<0>>)

\* C16: in compute_knn the row count handed to the search is the caller's m
\* (a count that does not fit is not passed on truncated), and every index
\* written to inds equals the 64-bit index it was narrowed from.
C16_NarrowingIsLossless ==
  entry = "compute_knn" =>
    /\ pc \in {"knn_search", "knn_narrow", "done"} => sizes[1] = m
    /\ pc = "done" => \A e \in DOMAIN inds : inds[e] = int64_indices[e]

\* C17: in both builders min_samples keeps the value the caller passed; the
\* KNN search returns min_samples neighbours per row, and core_distances is
\* called with the row stride n_neighbors = min_samples and takes column
\* min_samples - 1 of each row.
C17_MinSamplesThreaded ==
  [][IsGraph =>
       /\ min_samples' = min_samples
       /\ (g_pc = "knn" /\ g_pc' = "core") =>
            DOMAIN dists' = 0..(m * min_samples - 1)
       /\ (g_pc = "core" /\ g_pc' \in {"mr", "rows"}) =>
            /\ n_neighbors' = min_samples
            /\ \A i \in 0..(m - 1) :
                 core_dists'[i] = dists[i * min_samples + (min_samples - 1)]]_vars

\* a private buffer on device i holding a full copy of X
CopyOn(i, X) == [st |-> "alloc", dev |-> i, data |-> X, frees |-> 0]

\* C18: after the staging loop, and until an iteration has freed its
\* buffers, position i of the staged pointers (per_device_x1/2 and
\* inputs1/2_vec) is, for the home device, the caller's own array, with
\* nothing allocated for it, and for every other device i a buffer on device
\* i that holds a full copy of the source array.
C18_StagedPairBelongsToDevice ==
  pc \in {"alloc", "parallel"} =>
    /\ Len(per_device_x1) = num_devices /\ Len(per_device_x2) = num_devices
    /\ Len(inputs1_vec) = num_devices /\ Len(inputs2_vec) = num_devices
    /\ \A i \in 0..(num_devices - 1) :
         LET ptr == IF i = sentinel_device THEN CallerPtr ELSE i IN
           /\ per_device_x1[i + 1] = ptr /\ per_device_x2[i + 1] = ptr
           /\ inputs1_vec[i + 1] = ptr /\ inputs2_vec[i + 1] = ptr
           /\ i = sentinel_device => staged1[i] = NoBuf /\ staged2[i] = NoBuf
           /\ (i # sentinel_device /\ it_pc[i] # "done") =>
                staged1[i] = CopyOn(i, X1) /\ staged2[i] = CopyOn(i, X2)

\* staging has ended on three devices with home device 1
C18_Witness ==
  /\ pc = "alloc"
  /\ num_devices = 3
  /\ sentinel_device = 1
  /\ m = 3
  /\ per_device_x1 = <<0, CallerPtr, 2>>
  /\ staged1[0] = CopyOn(0, X1)
  /\ staged2[2] = CopyOn(2, X2)

\* the elements of a merged array that belong to the chunk of device i, from
\* the partition formula
Slice(i) ==
  LET q == n_search_items \div num_devices
      len == IF i = num_devices - 1 THEN q + (n_search_items % num_devices) ELSE q
  IN  (i * q * k)..((i * q + len) * k - 1)
Range(sq) == {sq[x] : x \in DOMAIN sq}
\* iteration i has written exactly its slice of the array with history wr
WroteSlice(wr, i) == \A e \in DOMAIN wr : (i \in Range(wr[e])) <=> (e \in Slice(i))
WroteNothing(wr, i) == \A e \in DOMAIN wr : i \notin Range(wr[e])

\* C19: for every non-home device i, the sub-search starts only after the
\* staging loop has ended and reads staging buffers that are allocated; the
\* partial distances, then the partial indices, are copied to the slice at
\* row offset start of the merged arrays while the staging buffers are still
\* allocated; the buffers are freed after both copies, once.
C19_StageSearchGatherFree ==
  /\ [](\A i \in Staged :
          /\ staged1[i].frees <= 1 /\ staged2[i].frees <= 1
          /\ it_pc[i] = "todo" =>
               WroteNothing(wr_dists, i) /\ WroteNothing(wr_inds, i)
          /\ it_pc[i] \in {"copy_dists", "copy_inds", "free"} =>
               /\ staged1[i].st = "alloc" /\ staged2[i].st = "alloc"
               /\ DOMAIN it_dists[i] = 0..(Cardinality(Slice(i)) - 1)
               /\ DOMAIN it_inds[i] = 0..(Cardinality(Slice(i)) - 1)
          /\ it_pc[i] = "copy_dists" =>
               WroteNothing(wr_dists, i) /\ WroteNothing(wr_inds, i)
          /\ it_pc[i] = "copy_inds" =>
               WroteSlice(wr_dists, i) /\ WroteNothing(wr_inds, i)
          /\ it_pc[i] \in {"free", "done"} =>
               WroteSlice(wr_dists, i) /\ WroteSlice(wr_inds, i)
          /\ (staged1[i].st = "freed" \/ staged2[i].st = "freed") =>
               it_pc[i] = "done")
  /\ [][\A i \in Staged :
          (it_pc[i] = "todo" /\ it_pc'[i] # "todo") =>
            /\ pc = "parallel" /\ stage_i = num_devices
            /\ staged1[i].st = "alloc" /\ staged2[i].st = "alloc"]_vars

\* device 2 of three has freed its buffers after gathering rows 2.. of the
\* merged arrays, while device 0 has searched and not yet gathered
C19_Witness ==
  /\ pc = "parallel"
  /\ num_devices = 3
  /\ sentinel_device = 1
  /\ n_search_items = 3
  /\ k = 2
  /\ it_pc[2] = "done"
  /\ staged1[2].st = "freed"
  /\ wr_inds[4] = <<2>>
  /\ it_pc[0] = "copy_dists"

\* iteration i runs its sub-search in this step
Searches(i) == it_pc[i] = "todo" /\ it_pc'[i] # "todo"

\* C20: an iteration that has run its sub-search never goes back to run it
\* again, so each device index searches at most once, and no index outside
\* [0, num_devices) searches at all; once the parallel loop is left, every
\* index in [0, num_devices) has searched and finished its gather, and inds
\* is written by the narrowing only then.
C20_OneSearchPerDeviceThenNarrow ==
  /\ [](/\ \A i \in Devices : i >= num_devices => it_pc[i] = "todo"
        /\ pc \in {"finalize", "narrow", "done"} =>
             /\ \A i \in 0..(num_devices - 1) : it_pc[i] = "done"
             /\ master_iter = NoIter
        /\ pc \in {"discover", "stage", "alloc", "parallel", "finalize", "narrow"} =>
             \A e \in DOMAIN inds : inds[e] = Uninit)
  /\ [][/\ \A i \in Devices : it_pc[i] # "todo" => it_pc'[i] # "todo"
        /\ \A i \in Devices : Searches(i) => (pc = "parallel" /\ i < num_devices)
        /\ \A i, j \in Devices : (Searches(i) /\ Searches(j)) => i = j
        /\ inds' # inds =>
             (pc = "narrow" /\ \A i \in 0..(num_devices - 1) : it_pc[i] = "done")]_vars

\* three devices have each searched and gathered, and the indices of three
\* rows have been narrowed
C20_Witness ==
  /\ pc = "done"
  /\ num_devices = 3
  /\ n_search_items = 3
  /\ \A i \in 0..2 : it_pc[i] = "done" /\ wr_inds[i * k] = <<i>>
  /\ \A e \in DOMAIN inds : inds[e] # Uninit

\* row r of the query array of iteration i as the sub-search reads it: the
\* array behind per_device_x1[i] or per_device_x2[i] (lines 310-311)
QueryRead1(i, r) == ReadRow(per_device_x1[i + 1], X1, staged1, r, <<>>)
QueryRead2(i, r) == ReadRow(per_device_x2[i + 1], X2, staged2, r, <<>>)

\* C21: an iteration that has run its sub-search has read, for each row r of
\* its chunk [start_i, start_i + len_i), a row that lies inside the array the
\* query pointer points into and that is row r of the caller's query set
\* (search_items1, search_items2).
C21_QueryRowsAreTheCallersRows ==
  \A i \in 0..(num_devices - 1) :
    it_pc[i] # "todo" =>
      \A r \in ChunkRows(i) :
        /\ r < m
        /\ QueryRead1(i, r) = search_items1[r]
        /\ QueryRead2(i, r) = search_items2[r]

\* the call is over: it has returned, an exception has left it, or the
\* process has ended inside it
CallOver == pc \in {"done", "thrown", "crashed"}

\* C22: when the call is over and some operation of it has failed, the calling
\* thread is bound to the home device, whichever way the call ended.
C22_BindingRestoredOnError ==
  (CallOver /\ cuda_errors # {}) => cur_device = sentinel_device

\* the raw KNN distances of mutual_reachability_graph: what the search of line
\* 439 returns for the point set
RawDists == ComputeKnn(X1, m, X1, m, min_samples).dists

\* the largest of three weights
Max3(a, b, c) == Max2(a, Max2(b, c))

\* the directed edge list is ready for symmetrization (line 458)
BeforeSymmetrize == entry = "mutual_reachability_graph" /\ g_pc = "symm"

C25_SelfLoopPassFrame ==
  [][(entry = "mutual_reachability_graph" /\ g_pc = "selfloop" /\ g_pc' = "done") =>
       /\ out'.rows = out.rows
       /\ out'.cols = out.cols
       /\ out'.nnz = out.nnz
       /\ indptr' = indptr
       /\ DOMAIN out'.vals = DOMAIN out.vals
       /\ \A e \in 0..(out.nnz - 1) :
            out.rows[e] # out.cols[e] => out'.vals[e] = out.vals[e]
       /\ \A r \in 0..m :
            indptr'[r] = Cardinality({e \in 0..(out'.nnz - 1) : out'.rows[e] < r})]_vars

\* the pass has run over a graph of three points on a line: the self-loop of
\* row 0 is at the maximum, the edge (0, 1) kept its weight 2, and row 1
\* still starts at offset 2
C25_Witness ==
  /\ entry = "mutual_reachability_graph"
  /\ g_pc = "done"
  /\ m = 3
  /\ min_samples = 2
  /\ alpha2 = 2
  /\ out.rows[0] = 0 /\ out.cols[0] = 0 /\ out.vals[0] = NumericLimitsMax
  /\ out.rows[1] = 0 /\ out.cols[1] = 1 /\ out.vals[1] = 2
  /\ indptr[1] = 2

\* C26: the edge list mutual_reachability_graph hands to symmetrization has
\* m * min_samples row indices, neighbours and weights; edge c is in row
\* floor(c / min_samples), every row index is in [0, m), and the edges of row
\* r are the min_samples consecutive edges from r * min_samples on.
C26_EdgeListShape ==
  BeforeSymmetrize =>
    /\ DOMAIN coo_rows = InEdges
    /\ DOMAIN inds = InEdges
    /\ DOMAIN dists = InEdges
    /\ Cardinality(InEdges) = m * min_samples
    /\ \A c \in InEdges :
         /\ coo_rows[c] \in 0..(m - 1)
         /\ coo_rows[c] * min_samples <= c
         /\ c < (coo_rows[c] + 1) * min_samples
    /\ \A r \in 0..(m - 1) :
         {c \in InEdges : coo_rows[c] = r}
           = (r * min_samples)..(r * min_samples + min_samples - 1)

\* three rows of two edges each: edges 2 and 3 are in row 1, edge 5 in row 2
C26_Witness ==
  /\ BeforeSymmetrize
  /\ m = 3
  /\ min_samples = 2
  /\ coo_rows = Seq0(<<0, 0, 1, 1, 2, 2>>)

\* the call has returned with every iteration finished and every staging
\* buffer freed
ReturnedClean ==
  /\ pc = "done"
  /\ \A i \in 0..(num_devices - 1) : it_pc[i] = "done"
  /\ \A i \in Staged : staged1[i].st = "freed" /\ staged2[i].st = "freed"

\* C27: under fair scheduling of the threads and with no failing device
\* operation, every call goes through Finalize and returns, with every
\* iteration finished (sub-search and gather) and every staging buffer freed;
\* and while the parallel loop runs, every unfinished iteration has a step it
\* can take, whatever the other iterations are doing.
C27_CallTerminates ==
  /\ <>(pc = "finalize")
  /\ <>ReturnedClean
  /\ [](pc = "parallel" =>
          \A i \in 0..(num_devices - 1) :
            it_pc[i] # "done" => ENABLED DeviceThread(i))

\* a call on three devices with two query rows has returned: devices 0 and 1
\* had empty chunks, and the staging buffers of both are freed
C27_Witness ==
  /\ ReturnedClean
  /\ num_devices = 3
  /\ sentinel_device = 2
  /\ n_search_items = 2
  /\ it_len[0] = 0
  /\ it_len[2] = 2
  /\ staged1[0].st = "freed"
  /\ staged2[1].st = "freed"
====
